---- MODULE Spec2Model ----
(***************************************************************************)
(* Prometheus dead man's switch.                                           *)
(*   api.py      webhook(): the heartbeat recorder (Lambda behind the API  *)
(*               gateway), writes epoch_seconds of a cluster to DynamoDB.  *)
(*   checker.py  check(): the scheduled liveness evaluator, scans the      *)
(*               table, notifies Slack and writes error_state.             *)
(* The DynamoDB table is the only shared state.  Every call that reaches   *)
(* outside the process (clock read, table read/write, Slack post) is a     *)
(* point where other invocations and the clock may move.                   *)
(***************************************************************************)
EXTENDS Integers, Sequences, FiniteSets, TLC

\* ------------------------------------------------------------------ bounds
StartTime == 9          \* epoch second at which the behaviours start
Horizon == 1            \* seconds of wall clock explored after StartTime
PageSize == 1           \* items DynamoDB returns per scan page

MaxTime == StartTime + Horizon

\* ----------------------------------------------------------- configuration
Clusters == {"a", "b"}                  \* cluster names that callers report
ApiIds == {"w1", "w2"}                  \* concurrent webhook invocations
CheckIds == {"k1", "k2"}                \* concurrent check invocations
SerialApi == {"w1"}
SerialCheck == {"k1"}

VERIFY_TOKEN == "secret"
MAX_TIME_SECONDS == <<"0">>           \* the environment string "0"
SCALE_DOWN_CLUSTERS == <<"a">>

\* A cron expression is either text croniter rejects, or a schedule that
\* fires at every second t with t % CronPeriod = phase.
CronPeriod == 2
BadCron == [valid |-> FALSE, phase |-> 0]
Every(p) == [valid |-> TRUE, phase |-> p]
\* The deployments explored: no window configured (both expressions empty),
\* one expression malformed, both firing together, a window that opens on
\* even seconds and closes on odd ones, and the opposite window.
CronConfigs == {[down |-> BadCron, up |-> BadCron],
                [down |-> BadCron, up |-> Every(1)],
                [down |-> Every(0), up |-> BadCron],
                [down |-> Every(0), up |-> Every(0)],
                [down |-> Every(0), up |-> Every(1)],
                [down |-> Every(1), up |-> Every(0)]}
\* The walk order of the table's keys in the deployments explored.
ScanOrders == {<<"a", "b">>}

NoKey == ""
NoResponse == [statusCode |-> 0, body |-> ""]
NoEvent == [path |-> [cluster_name |-> ""], query |-> [unused |-> ""]]

\* The events API Gateway can hand to webhook: the query carries a
\* verify_token (right or wrong) or no verify_token at all.
Queries == {[verify_token |-> "secret"], [verify_token |-> "wrong"], [other |-> "x"]}
Events == {[path |-> [cluster_name |-> c], query |-> q] : c \in Clusters, q \in Queries}

VARIABLES
    clock,      \* wall clock, epoch seconds
    table,      \* the DynamoDB table: cluster_name -> item (attribute -> value)
    cron,       \* [down, up]: SCALE_DOWN_CRON and SCALE_UP_CRON
    hash_order, \* the order in which DynamoDB's scan walks the keys
    api,        \* webhook invocations
    checker,    \* check invocations
    history,    \* what finding keeps in this behaviour: "off" (nothing),
                \* "findings" or "windows"
    finding     \* per cluster, under "findings" the last notification of the
                \* checker and its sequel: "none", "stale" (alert sent),
                \* "recovery" (recovery sent), "recovered" (recovery sent and
                \* error_state = False written); under "windows" how the passes met
                \* the cluster since its last heartbeat: "none", "skipped" (the
                \* last pass excluded it), "left" (excluded, then processed)

vars == <<clock, table, cron, hash_order, api, checker, history, finding>>

\* ---------------------------------------------------------------- helpers
Range(s) == {s[i] : i \in 1..Len(s)}

\* Python's str(int) for n >= 0, as the sequence of its characters.
DigitChar(d) == <<"0", "1", "2", "3", "4", "5", "6", "7", "8", "9">>[d + 1]

RECURSIVE str(_)
str(n) == IF n < 10 THEN <<DigitChar(n)>> ELSE str(n \div 10) \o <<DigitChar(n % 10)>>

\* Python's int(str) for an unsigned decimal string.
DigitValue(ch) == CHOOSE d \in 0..9 : DigitChar(d) = ch

RECURSIVE int(_)
int(s) == IF Len(s) = 0 THEN 0
          ELSE 10 * int(SubSeq(s, 1, Len(s) - 1)) + DigitValue(s[Len(s)])

update_item_existing_only(tbl, key, attr, val) ==
    IF key \notin DOMAIN tbl THEN tbl
    ELSE [k \in DOMAIN tbl |->
            IF k = key
            THEN [a \in (DOMAIN tbl[k]) \cup {attr} |-> IF a = attr THEN val ELSE tbl[k][a]]
            ELSE tbl[k]]

\* DynamoDB update_item with UpdateExpression "set attr=:v": an upsert.  The
\* item is created when the key is absent; other attributes are kept.
update_item(tbl, key, attr, val) ==
    LET old == IF key \in DOMAIN tbl THEN tbl[key] ELSE [cluster_name |-> key]
        new == [a \in (DOMAIN old) \cup {attr} |-> IF a = attr THEN val ELSE old[a]]
    IN  [k \in (DOMAIN tbl) \cup {key} |-> IF k = key THEN new ELSE tbl[k]]

\* The keys at the n smallest positions of S, in walk order.
RECURSIVE take(_, _)
take(S, n) ==
    IF S = {} \/ n = 0 THEN <<>>
    ELSE LET m == CHOOSE i \in S : \A j \in S : i <= j
         IN  <<hash_order[m]>> \o take(S \ {m}, n - 1)

\* One page of DynamoDB scan: the items whose keys follow start_key in the
\* table's walk order, at most PageSize of them; LastEvaluatedKey is set when
\* the page limit stopped the scan.
scan(tbl, start_key) ==
    LET from == IF start_key = NoKey THEN 0
                ELSE CHOOSE i \in 1..Len(hash_order) : hash_order[i] = start_key
        idx  == {i \in (from + 1)..Len(hash_order) : hash_order[i] \in DOMAIN tbl}
        keys == take(idx, PageSize)
    IN  [Items |-> [j \in 1..Len(keys) |-> tbl[keys[j]]],
         LastEvaluatedKey |-> IF Len(keys) = PageSize THEN keys[Len(keys)] ELSE NoKey]

\* croniter.is_valid(expr)
croniter_is_valid(expr) == expr.valid

\* croniter(expr, now).get_prev(): the latest firing strictly before now.
croniter_get_prev(expr, now) ==
    CHOOSE t \in (now - CronPeriod)..(now - 1) : t % CronPeriod = expr.phase

\* ------------------------------------------------------------------ api.py
\* writes counts the update_item calls of the invocation; overtaken tells
\* that, since the invocation read the clock, another invocation wrote the
\* epoch_seconds of the same cluster.
IdleApi == [pc |-> "idle", event |-> NoEvent, cluster_name |-> "", epoch_seconds |-> 0,
            response |-> NoResponse, writes |-> 0, overtaken |-> FALSE]

\* The invocations after w has written epoch_seconds of its cluster: the
\* others that hold a clock value for the same cluster are overtaken.
written(w, done) ==
    [v \in ApiIds |->
        IF v = w THEN done
        ELSE IF api[v].pc = "dynamodb_write" /\ api[v].cluster_name = api[w].cluster_name
        THEN [api[v] EXCEPT !.overtaken = TRUE]
        ELSE api[v]]

verify_token_absent_ok(event) ==
    "verify_token" \notin DOMAIN event.query \/ event.query.verify_token = VERIFY_TOKEN

verify_token(event) ==
    "verify_token" \in DOMAIN event.query /\ event.query.verify_token = VERIFY_TOKEN

webhook_trusts_caller_time(w) ==
    \E event \in Events : \E sent_at \in StartTime..clock :
        /\ api[w].pc = "idle"
        /\ IF ~verify_token(event)
           THEN api' = [api EXCEPT ![w] = [IdleApi EXCEPT
                            !.pc = "returned", !.event = event,
                            !.response = [statusCode |-> 400, body |-> "Wrong verification token"]]]
           ELSE api' = [api EXCEPT ![w] = [IdleApi EXCEPT
                            !.pc = "dynamodb_write", !.event = event,
                            !.cluster_name = event.path.cluster_name,
                            !.epoch_seconds = sent_at]]
        /\ UNCHANGED <<clock, table, cron, hash_order, checker, history, finding>>

\* webhook, lines 80-85: the token check and the clock read.
webhook(w) ==
    \E event \in Events :
        /\ api[w].pc = "idle"
        /\ IF ~verify_token(event)
           THEN api' = [api EXCEPT ![w] = [IdleApi EXCEPT
                            !.pc = "returned", !.event = event,
                            !.response = [statusCode |-> 400, body |-> "Wrong verification token"]]]
           ELSE api' = [api EXCEPT ![w] = [IdleApi EXCEPT
                            !.pc = "dynamodb_write", !.event = event,
                            !.cluster_name = event.path.cluster_name,
                            !.epoch_seconds = clock]]
        /\ UNCHANGED <<clock, table, cron, hash_order, checker, history, finding>>

dynamodb_write_rereads_clock(w) ==
    /\ api[w].pc = "dynamodb_write"
    /\ table' = update_item(table, api[w].cluster_name, "epoch_seconds", clock)
    /\ api' = written(w, [api[w] EXCEPT
                    !.pc = "returned",
                    !.writes = @ + 1,
                    !.response = [statusCode |-> 200, body |-> str(api[w].epoch_seconds)]])
    /\ UNCHANGED <<clock, cron, hash_order, checker, history, finding>>

\* webhook, lines 86-87: the table write succeeds and the handler returns 200.
dynamodb_write(w) ==
    /\ api[w].pc = "dynamodb_write"
    /\ table' = update_item(table, api[w].cluster_name, "epoch_seconds", api[w].epoch_seconds)
    /\ api' = written(w, [api[w] EXCEPT
                    !.pc = "returned",
                    !.writes = @ + 1,
                    !.response = [statusCode |-> 200, body |-> str(api[w].epoch_seconds)]])
    /\ finding' = IF history = "windows"
                  THEN [finding EXCEPT ![api[w].cluster_name] = "none"]
                  ELSE finding
    /\ UNCHANGED <<clock, cron, hash_order, checker, history>>

dynamodb_write_error_returns_200(w) ==
    /\ api[w].pc = "dynamodb_write"
    /\ api' = [api EXCEPT ![w].pc = "returned",
                          ![w].writes = @ + 1,
                          ![w].response = [statusCode |-> 200, body |-> str(api[w].epoch_seconds)]]
    /\ UNCHANGED <<clock, table, cron, hash_order, checker, history, finding>>

\* dynamodb_write, lines 64-67: update_item raises ClientError, which is
\* re-raised as an Exception out of the handler.
dynamodb_write_error(w) ==
    /\ api[w].pc = "dynamodb_write"
    /\ api' = [api EXCEPT ![w] = [IdleApi EXCEPT !.pc = "raised", !.event = api[w].event,
                                           !.writes = api[w].writes + 1]]
    /\ UNCHANGED <<clock, table, cron, hash_order, checker, history, finding>>

\* The Lambda invocation is over; the slot serves the next request.
webhook_end(w) ==
    /\ api[w].pc \in {"returned", "raised"}
    /\ api' = [api EXCEPT ![w] = IdleApi]
    /\ UNCHANGED <<clock, table, cron, hash_order, checker, history, finding>>

\* -------------------------------------------------------------- checker.py
\* log records, for the pass in progress and per cluster name, what the pass
\* read and did, one entry per execution of the line:
\*   now:    [now]                                   line 184: time.time()
\*   cron:   [at, process]                           line 186: datetime.now() and
\*                                                   check_cluster_cron's answer
\*   send:   [error, time_since_check_in, delivered] lines 194, 200
\*   update: [error_state, ok]                       lines 195, 202
NothingDone == [now |-> <<>>, cron |-> <<>>, send |-> <<>>, update |-> <<>>]

IdleCheck == [pc |-> "idle", clusters |-> <<>>, start_key |-> NoKey, i |-> 0, now |-> 0,
              error_state |-> FALSE, log |-> [c \in Clusters |-> NothingDone]]

check_cluster_cron_or_equal(cluster_name, now) ==
    IF cluster_name \notin Range(SCALE_DOWN_CLUSTERS) THEN TRUE
    ELSE IF ~croniter_is_valid(cron.down) \/ ~croniter_is_valid(cron.up) THEN TRUE
    ELSE IF croniter_get_prev(cron.down, now) >= croniter_get_prev(cron.up, now) THEN FALSE
    ELSE TRUE

check_cluster_cron_both_invalid(cluster_name, now) ==
    IF cluster_name \notin Range(SCALE_DOWN_CLUSTERS) THEN TRUE
    ELSE IF ~croniter_is_valid(cron.down) /\ ~croniter_is_valid(cron.up) THEN TRUE
    ELSE IF croniter_get_prev(cron.down, now) > croniter_get_prev(cron.up, now) THEN FALSE
    ELSE TRUE

\* check_cluster_cron, with the value datetime.now() returns at line 71.
check_cluster_cron(cluster_name, now) ==
    IF cluster_name \notin Range(SCALE_DOWN_CLUSTERS) THEN TRUE
    ELSE IF ~croniter_is_valid(cron.down) \/ ~croniter_is_valid(cron.up) THEN TRUE
    ELSE IF croniter_get_prev(cron.down, now) > croniter_get_prev(cron.up, now) THEN FALSE
    ELSE TRUE

\* check, line 181: one page of dynamodb_scan (lines 99-105) is read.
dynamodb_scan(k) ==
    /\ checker[k].pc \in {"idle", "dynamodb_scan"}
    /\ LET response == scan(table, checker[k].start_key)
           records  == checker[k].clusters \o response.Items
           done     == response.LastEvaluatedKey = NoKey
       IN  checker' = [checker EXCEPT ![k] = [@ EXCEPT
                          !.pc = IF done THEN "loop" ELSE "dynamodb_scan",
                          !.clusters = records,
                          !.start_key = response.LastEvaluatedKey,
                          !.i = 1]]
    /\ UNCHANGED <<clock, table, cron, hash_order, api, history, finding>>

dynamodb_scan_error_returns_partial(k) ==
    /\ checker[k].pc \in {"idle", "dynamodb_scan"}
    /\ checker' = [checker EXCEPT ![k].pc = "loop", ![k].i = 1]
    /\ UNCHANGED <<clock, table, cron, hash_order, api, history, finding>>

\* dynamodb_scan, lines 106-109: a page read raises ClientError: sys.exit(1).
dynamodb_scan_error(k) ==
    /\ checker[k].pc \in {"idle", "dynamodb_scan"}
    /\ checker' = [checker EXCEPT ![k].pc = "exit"]
    /\ UNCHANGED <<clock, table, cron, hash_order, api, history, finding>>

\* check, lines 183-185: the loop takes the next cluster and reads the clock.
check_now(k) ==
    /\ checker[k].pc = "loop"
    /\ checker[k].i <= Len(checker[k].clusters)
    /\ checker' = [checker EXCEPT ![k].pc = "cluster", ![k].now = clock,
            ![k].log[checker[k].clusters[checker[k].i].cluster_name].now =
                Append(@, [now |-> clock])]
    /\ UNCHANGED <<clock, table, cron, hash_order, api, history, finding>>

\* send_slack_notification: the post is delivered, or it fails and the
\* failure is logged and swallowed (lines 165-170).
send_slack_notification(log, cluster_name, time_since_check_in, error, delivered) ==
    [log EXCEPT ![cluster_name].send =
        Append(@, [error |-> error, time_since_check_in |-> time_since_check_in,
                   delivered |-> delivered])]

transition_recovery_level(cluster, now) ==
    LET time_since_check_in == now - cluster.epoch_seconds
    IN  IF time_since_check_in > int(MAX_TIME_SECONDS)
        THEN [send |-> <<TRUE>>, error_state |-> TRUE, found |-> "stale"]
        ELSE [send |-> <<FALSE>>, error_state |-> FALSE, found |-> "recovery"]

transition_alert_once(cluster, now) ==
    LET time_since_check_in == now - cluster.epoch_seconds
        prior == "error_state" \in DOMAIN cluster /\ cluster.error_state
    IN  IF time_since_check_in > int(MAX_TIME_SECONDS)
        THEN [send |-> IF prior THEN <<>> ELSE <<TRUE>>, error_state |-> TRUE,
              found |-> "stale"]
        ELSE IF prior
        THEN [send |-> <<FALSE>>, error_state |-> FALSE, found |-> "recovery"]
        ELSE [send |-> <<>>, error_state |-> FALSE, found |-> "none"]

transition_at_threshold(cluster, now) ==
    LET time_since_check_in == now - cluster.epoch_seconds
    IN  IF time_since_check_in >= int(MAX_TIME_SECONDS)
        THEN [send |-> <<TRUE>>, error_state |-> TRUE, found |-> "stale"]
        ELSE IF "error_state" \in DOMAIN cluster /\ cluster.error_state
        THEN [send |-> <<FALSE>>, error_state |-> FALSE, found |-> "recovery"]
        ELSE [send |-> <<>>, error_state |-> FALSE, found |-> "none"]

transition_recovery_kept(cluster, now) ==
    LET time_since_check_in == now - cluster.epoch_seconds
    IN  IF time_since_check_in > int(MAX_TIME_SECONDS)
        THEN [send |-> <<TRUE>>, error_state |-> TRUE, found |-> "stale"]
        ELSE IF "error_state" \in DOMAIN cluster /\ cluster.error_state
        THEN [send |-> <<FALSE>>, error_state |-> TRUE, found |-> "recovery"]
        ELSE [send |-> <<>>, error_state |-> FALSE, found |-> "none"]

\* check, lines 189-202: what the pass does for a cluster it processes, from
\* the scanned item and the clock value read at line 184: the notifications
\* to send (error = TRUE for an alert, FALSE for a recovery), the error_state
\* to write, and the branch taken.
transition(cluster, now) ==
    LET time_since_check_in == now - cluster.epoch_seconds
    IN  IF time_since_check_in > int(MAX_TIME_SECONDS)
        THEN [send |-> <<TRUE>>, error_state |-> TRUE, found |-> "stale"]
        ELSE IF "error_state" \in DOMAIN cluster /\ cluster.error_state
        THEN [send |-> <<FALSE>>, error_state |-> FALSE, found |-> "recovery"]
        ELSE [send |-> <<>>, error_state |-> FALSE, found |-> "none"]

check_send_failure_raises(k) ==
    LET cluster == checker[k].clusters[checker[k].i]
        cluster_name == cluster.cluster_name
        process == check_cluster_cron(cluster_name, clock)
        asked == [checker[k].log EXCEPT ![cluster_name].cron =
                     Append(@, [at |-> clock, process |-> process])]
    IN  /\ checker[k].pc = "cluster"
        /\ IF ~process
           THEN /\ checker' = [checker EXCEPT ![k].pc = "loop", ![k].i = @ + 1, ![k].log = asked]
                /\ UNCHANGED finding
           ELSE IF "epoch_seconds" \notin DOMAIN cluster
           THEN /\ checker' = [checker EXCEPT ![k].pc = "exit"]
                /\ UNCHANGED finding
           ELSE LET todo == transition(cluster, checker[k].now)
                    time_since_check_in == checker[k].now - cluster.epoch_seconds
                IN  /\ \E delivered \in (IF todo.send = <<>> THEN {TRUE} ELSE BOOLEAN) :
                            checker' = [checker EXCEPT
                                ![k].pc = IF delivered THEN "dynamodb_update" ELSE "exit",
                                ![k].error_state = todo.error_state,
                                ![k].log = IF todo.send = <<>> THEN asked
                                           ELSE send_slack_notification(asked, cluster_name,
                                                    time_since_check_in, todo.send[1], delivered)]
                    /\ finding' = IF history = "findings" /\ todo.found # "none"
                                  THEN [finding EXCEPT ![cluster_name] = todo.found]
                                  ELSE finding
        /\ UNCHANGED <<clock, table, cron, hash_order, api, history>>

check_alerts_once_per_pass(k) ==
    LET cluster == checker[k].clusters[checker[k].i]
        cluster_name == cluster.cluster_name
        process == check_cluster_cron(cluster_name, clock)
        asked == [checker[k].log EXCEPT ![cluster_name].cron =
                     Append(@, [at |-> clock, process |-> process])]
        alerted == \E c \in Clusters : \E j \in DOMAIN checker[k].log[c].send :
                       checker[k].log[c].send[j].error
    IN  /\ checker[k].pc = "cluster"
        /\ IF ~process
           THEN /\ checker' = [checker EXCEPT ![k].pc = "loop", ![k].i = @ + 1, ![k].log = asked]
                /\ UNCHANGED finding
           ELSE IF "epoch_seconds" \notin DOMAIN cluster
           THEN /\ checker' = [checker EXCEPT ![k].pc = "exit"]
                /\ UNCHANGED finding
           ELSE LET todo == transition(cluster, checker[k].now)
                    time_since_check_in == checker[k].now - cluster.epoch_seconds
                    quiet == todo.send = <<>> \/ (todo.send[1] /\ alerted)
                IN  /\ \E delivered \in (IF quiet THEN {TRUE} ELSE BOOLEAN) :
                            checker' = [checker EXCEPT ![k].pc = "dynamodb_update",
                                ![k].error_state = todo.error_state,
                                ![k].log = IF quiet THEN asked
                                           ELSE send_slack_notification(asked, cluster_name,
                                                    time_since_check_in, todo.send[1], delivered)]
                    /\ finding' = IF history = "findings" /\ todo.found # "none"
                                  THEN [finding EXCEPT ![cluster_name] = todo.found]
                                  ELSE finding
        /\ UNCHANGED <<clock, table, cron, hash_order, api, history>>

check_skip_clears_alert(k) ==
    LET cluster == checker[k].clusters[checker[k].i]
        cluster_name == cluster.cluster_name
        process == check_cluster_cron(cluster_name, clock)
        asked == [checker[k].log EXCEPT ![cluster_name].cron =
                     Append(@, [at |-> clock, process |-> process])]
    IN  /\ checker[k].pc = "cluster"
        /\ IF ~process
           THEN /\ checker' = [checker EXCEPT ![k].pc = "dynamodb_update",
                                   ![k].error_state = FALSE, ![k].log = asked]
                /\ finding' = IF history = "windows"
                              THEN [finding EXCEPT ![cluster_name] = "skipped"]
                              ELSE finding
           ELSE IF "epoch_seconds" \notin DOMAIN cluster
           THEN /\ checker' = [checker EXCEPT ![k].pc = "exit"]
                /\ UNCHANGED finding
           ELSE LET todo == transition(cluster, checker[k].now)
                    time_since_check_in == checker[k].now - cluster.epoch_seconds
                IN  /\ \E delivered \in (IF todo.send = <<>> THEN {TRUE} ELSE BOOLEAN) :
                            checker' = [checker EXCEPT ![k].pc = "dynamodb_update",
                                ![k].error_state = todo.error_state,
                                ![k].log = IF todo.send = <<>> THEN asked
                                           ELSE send_slack_notification(asked, cluster_name,
                                                    time_since_check_in, todo.send[1], delivered)]
                    /\ finding' = IF history = "findings" /\ todo.found # "none"
                                  THEN [finding EXCEPT ![cluster_name] = todo.found]
                                  ELSE IF history = "windows"
                                  THEN [finding EXCEPT ![cluster_name] =
                                           IF @ = "skipped" THEN "left" ELSE "none"]
                                  ELSE finding
        /\ UNCHANGED <<clock, table, cron, hash_order, api, history>>

\* check, lines 186-194 and 196-201 for the current cluster.
check(k) ==
    LET cluster == checker[k].clusters[checker[k].i]
        cluster_name == cluster.cluster_name
        process == check_cluster_cron(cluster_name, clock)
        asked == [checker[k].log EXCEPT ![cluster_name].cron =
                     Append(@, [at |-> clock, process |-> process])]
    IN  /\ checker[k].pc = "cluster"
        /\ IF ~process
           THEN /\ checker' = [checker EXCEPT ![k].pc = "loop", ![k].i = @ + 1, ![k].log = asked]
                /\ finding' = IF history = "windows"
                              THEN [finding EXCEPT ![cluster_name] = "skipped"]
                              ELSE finding
           ELSE IF "epoch_seconds" \notin DOMAIN cluster
           THEN /\ checker' = [checker EXCEPT ![k].pc = "exit"]       \* KeyError
                /\ UNCHANGED finding
           ELSE LET todo == transition(cluster, checker[k].now)
                    time_since_check_in == checker[k].now - cluster.epoch_seconds
                IN  /\ \E delivered \in (IF todo.send = <<>> THEN {TRUE} ELSE BOOLEAN) :
                            checker' = [checker EXCEPT ![k].pc = "dynamodb_update",
                                ![k].error_state = todo.error_state,
                                ![k].log = IF todo.send = <<>> THEN asked
                                           ELSE send_slack_notification(asked, cluster_name,
                                                    time_since_check_in, todo.send[1], delivered)]
                    /\ finding' = IF history = "findings" /\ todo.found # "none"
                                  THEN [finding EXCEPT ![cluster_name] = todo.found]
                                  ELSE IF history = "windows"
                                  THEN [finding EXCEPT ![cluster_name] =
                                           IF @ = "skipped" THEN "left" ELSE "none"]
                                  ELSE finding
        /\ UNCHANGED <<clock, table, cron, hash_order, api, history>>

dynamodb_update_puts_scanned_item(k) ==
    LET cluster == checker[k].clusters[checker[k].i]
        cluster_name == cluster.cluster_name
    IN  /\ checker[k].pc = "dynamodb_update"
        /\ table' = [c \in (DOMAIN table) \cup {cluster_name} |->
                        IF c = cluster_name
                        THEN [cluster_name |-> cluster_name,
                              epoch_seconds |-> cluster.epoch_seconds,
                              error_state |-> checker[k].error_state]
                        ELSE table[c]]
        /\ checker' = [checker EXCEPT ![k].pc = "loop", ![k].i = @ + 1,
                ![k].log[cluster_name].update =
                    Append(@, [error_state |-> checker[k].error_state, ok |-> TRUE])]
        /\ finding' = IF history = "findings" /\ finding[cluster_name] = "recovery" /\ ~checker[k].error_state
                      THEN [finding EXCEPT ![cluster_name] = "recovered"]
                      ELSE finding
        /\ UNCHANGED <<clock, cron, hash_order, api, history>>

dynamodb_update_always_true(k) ==
    LET cluster_name == checker[k].clusters[checker[k].i].cluster_name
    IN  /\ checker[k].pc = "dynamodb_update"
        /\ table' = update_item(table, cluster_name, "error_state", TRUE)
        /\ checker' = [checker EXCEPT ![k].pc = "loop", ![k].i = @ + 1,
                ![k].log[cluster_name].update = Append(@, [error_state |-> TRUE, ok |-> TRUE])]
        /\ UNCHANGED finding
        /\ UNCHANGED <<clock, cron, hash_order, api, history>>

\* check, lines 195 and 202: dynamodb_update writes error_state.
dynamodb_update(k) ==
    LET cluster_name == checker[k].clusters[checker[k].i].cluster_name
    IN  /\ checker[k].pc = "dynamodb_update"
        /\ table' = update_item(table, cluster_name, "error_state", checker[k].error_state)
        /\ checker' = [checker EXCEPT ![k].pc = "loop", ![k].i = @ + 1,
                ![k].log[cluster_name].update =
                    Append(@, [error_state |-> checker[k].error_state, ok |-> TRUE])]
        /\ finding' = IF history = "findings" /\ finding[cluster_name] = "recovery" /\ ~checker[k].error_state
                      THEN [finding EXCEPT ![cluster_name] = "recovered"]
                      ELSE finding
        /\ UNCHANGED <<clock, cron, hash_order, api, history>>

dynamodb_update_error_raises(k) ==
    LET cluster_name == checker[k].clusters[checker[k].i].cluster_name
    IN  /\ checker[k].pc = "dynamodb_update"
        /\ checker' = [checker EXCEPT ![k].pc = "exit",
                ![k].log[cluster_name].update =
                    Append(@, [error_state |-> checker[k].error_state, ok |-> FALSE])]
        /\ UNCHANGED <<clock, table, cron, hash_order, api, history, finding>>

\* dynamodb_update, lines 135-137: update_item raises ClientError, which is
\* logged and swallowed.
dynamodb_update_error(k) ==
    LET cluster_name == checker[k].clusters[checker[k].i].cluster_name
    IN  /\ checker[k].pc = "dynamodb_update"
        /\ checker' = [checker EXCEPT ![k].pc = "loop", ![k].i = @ + 1,
                ![k].log[cluster_name].update =
                    Append(@, [error_state |-> checker[k].error_state, ok |-> FALSE])]
        /\ UNCHANGED <<clock, table, cron, hash_order, api, history, finding>>

\* check, line 183: the list is exhausted, the handler returns and the
\* invocation is over; the slot serves the next scheduler tick.
check_return(k) ==
    /\ checker[k].pc = "loop"
    /\ checker[k].i > Len(checker[k].clusters)
    /\ checker' = [checker EXCEPT ![k] = IdleCheck]
    /\ UNCHANGED <<clock, table, cron, hash_order, api, history, finding>>

\* The process that left through sys.exit(1) or an uncaught exception is gone.
check_exit(k) ==
    /\ checker[k].pc = "exit"
    /\ checker' = [checker EXCEPT ![k] = IdleCheck]
    /\ UNCHANGED <<clock, table, cron, hash_order, api, history, finding>>

\* ------------------------------------------------------------------- clock
Tick ==
    /\ clock < MaxTime
    /\ clock' = clock + 1
    /\ UNCHANGED <<table, cron, hash_order, api, checker, history, finding>>

\* ----------------------------------------------------------- specification
EmptyTable == [c \in {} |-> [cluster_name |-> c]]

Start ==
    /\ clock = StartTime
    /\ table = EmptyTable
    /\ cron \in CronConfigs
    /\ hash_order \in ScanOrders
    /\ api = [w \in ApiIds |-> IdleApi]
    /\ checker = [k \in CheckIds |-> IdleCheck]
    /\ finding = [c \in Clusters |-> "none"]

Init == Start /\ history = "off"

\* One webhook invocation and one check invocation at a time, interleaved
\* with each other and with the clock.
Next ==
    \/ Tick
    \/ \E w \in SerialApi : webhook(w)
    \/ \E w \in SerialApi : dynamodb_write(w)
    \/ \E w \in SerialApi : dynamodb_write_error(w)
    \/ \E w \in SerialApi : webhook_end(w)
    \/ \E k \in SerialCheck : dynamodb_scan(k)
    \/ \E k \in SerialCheck : dynamodb_scan_error(k)
    \/ \E k \in SerialCheck : check_now(k)
    \/ \E k \in SerialCheck : check(k)
    \/ \E k \in SerialCheck : dynamodb_update(k)
    \/ \E k \in SerialCheck : dynamodb_update_error(k)
    \/ \E k \in SerialCheck : check_return(k)
    \/ \E k \in SerialCheck : check_exit(k)

Spec == Init /\ [][Next]_vars

\* Concurrent webhook invocations and the clock, no check running.
NextRecorders ==
    \/ Tick
    \/ \E w \in ApiIds : webhook(w)
    \/ \E w \in ApiIds : dynamodb_write(w)
    \/ \E w \in ApiIds : dynamodb_write_error(w)
    \/ \E w \in ApiIds : webhook_end(w)

SpecRecorders == Init /\ [][NextRecorders]_vars

\* ----------------------------------------------------- overlapping passes
\* DynamoDB gives no order to the keys it scans: between two scans the walk
\* order may differ.  The order matters to a scan still to come.
AllOrders == {<<"a", "b">>, <<"b", "a">>}

Rehash ==
    /\ \A k \in CheckIds : checker[k].pc # "dynamodb_scan"
    /\ \E k \in CheckIds : checker[k].pc = "idle"
    /\ hash_order' \in AllOrders \ {hash_order}
    /\ UNCHANGED <<clock, table, cron, api, checker, history, finding>>

\* The tables two passes meet: both clusters reported at StartTime, each
\* alerting or not.
ReportedTables ==
    {[c \in Clusters |-> [cluster_name |-> c, epoch_seconds |-> StartTime,
                          error_state |-> e[c]]] : e \in [Clusters -> BOOLEAN]}

WindowConfigs == {[down |-> BadCron, up |-> BadCron],
                  [down |-> Every(1), up |-> Every(0)]}

InitOverlap ==
    /\ clock = StartTime
    /\ table \in ReportedTables
    /\ cron \in WindowConfigs
    /\ hash_order \in AllOrders
    /\ api = [w \in ApiIds |-> IdleApi]
    /\ checker = [k \in CheckIds |-> IdleCheck]
    /\ finding = [c \in Clusters |-> "none"]
    /\ history = "off"

\* Two check invocations, one pass each, running at the same time; k1 names
\* the one that starts first.
NextOverlap ==
    \/ Tick
    \/ Rehash
    \/ \E k \in CheckIds : (k = "k1" \/ checker["k1"].pc # "idle") /\ dynamodb_scan(k)
    \/ \E k \in CheckIds : check_now(k)
    \/ \E k \in CheckIds : check(k)
    \/ \E k \in CheckIds : dynamodb_update(k)
    \/ \E k \in CheckIds : dynamodb_update_error(k)

SpecOverlap == InitOverlap /\ [][NextOverlap]_vars

\* -------------------------------------------------------------- scheduling
\* The clock advances; the scheduler starts a pass whenever none runs; a
\* handler that has started runs to its end; a page of the scan that is
\* read again and again does not fail every time.  Heartbeats are under no
\* obligation to arrive.
Fairness ==
    /\ WF_vars(Tick)
    /\ \A k \in SerialCheck :
          /\ WF_vars(dynamodb_scan(k) \/ dynamodb_scan_error(k))
          /\ \A key \in {NoKey} \cup Clusters :
                 SF_vars(dynamodb_scan(k) /\ checker[k].start_key = key)
          /\ WF_vars(check_now(k))
          /\ WF_vars(check(k))
          /\ WF_vars(dynamodb_update(k) \/ dynamodb_update_error(k))
          /\ WF_vars(check_return(k))
          /\ WF_vars(check_exit(k))

\* Deployments without a window, and with one that is open at the end of
\* the explored time.
InitLive == Init /\ cron \in WindowConfigs

SpecLive == InitLive /\ [][Next]_vars /\ Fairness

\* The same system, with the history of notifications kept in finding.
InitHistory == Start /\ history = "findings"

SpecHistory == InitHistory /\ [][Next]_vars

\* -------------------------------------------------------- leaving the window
\* A deployment whose maintenance window for the clusters of
\* SCALE_DOWN_CLUSTERS is open at StartTime and closed one second before and
\* after, and the tables it holds on entering the window: the cluster last
\* reported before the window opened, alerting or not.
WindowCron == [down |-> Every(0), up |-> Every(1)]

WindowTables ==
    {[c \in Range(SCALE_DOWN_CLUSTERS) |->
         [cluster_name |-> c, epoch_seconds |-> StartTime - 1, error_state |-> e]] :
     e \in BOOLEAN}

InitWindow ==
    /\ clock = StartTime
    /\ table \in WindowTables
    /\ cron = WindowCron
    /\ hash_order \in ScanOrders
    /\ api = [w \in ApiIds |-> IdleApi]
    /\ checker = [k \in CheckIds |-> IdleCheck]
    /\ finding = [c \in Clusters |-> "none"]
    /\ history = "windows"

SpecWindow == InitWindow /\ [][Next]_vars

\* ================================================================== claims
\* Attribute attr of the item of cluster c, as a set: empty when the item or
\* the attribute is absent.
Attr(tbl, c, attr) ==
    IF c \in DOMAIN tbl /\ attr \in DOMAIN tbl[c] THEN {tbl[c][attr]} ELSE {}

\* tbl2 is tbl after one "set attr = val" on the item of cluster c and
\* nothing else.
OneWrite(tbl, tbl2, c, attr, val) ==
    /\ DOMAIN tbl2 = (DOMAIN tbl) \cup {c}
    /\ Attr(tbl2, c, attr) = {val}
    /\ \A d \in Clusters : \A x \in {"epoch_seconds", "error_state"} :
           (d # c \/ x # attr) => Attr(tbl2, d, x) = Attr(tbl, d, x)

\* The query of the event carries no verify_token, or one that is not the secret.
BadToken(event) ==
    \A name \in DOMAIN event.query :
        name = "verify_token" => event.query[name] # VERIFY_TOKEN

\* s is a decimal numeral without sign and without leading zero.
IsDecimal(s) ==
    /\ Len(s) >= 1
    /\ \A j \in 1..Len(s) : \E d \in 0..9 : s[j] = DigitChar(d)
    /\ (Len(s) > 1 => s[1] # "0")

\* ------------------------------------------------- what a pass did, per cluster
\* The entries pass k logged for operation op on cluster c, and their positions.
Done(k, c, op) == checker[k].log[c][op]

Did(k, c, op) == DOMAIN Done(k, c, op)

Alerts(k, c) == {j \in Did(k, c, "send") : Done(k, c, "send")[j].error}

Recoveries(k, c) == {j \in Did(k, c, "send") : ~Done(k, c, "send")[j].error}

\* The n-th scanned item of pass k, and whether its iteration is over.
Scanned(k, n) == checker[k].clusters[n]

Finished(k, n) == checker[k].pc \in {"loop", "cluster", "dynamodb_update"} /\ checker[k].i > n

\* Iteration n went past the maintenance-window check.
Processed(k, n) ==
    \E j \in Did(k, Scanned(k, n).cluster_name, "cron") :
        Done(k, Scanned(k, n).cluster_name, "cron")[j].process

\* now - last_seen of iteration n: the clock value the iteration read at
\* line 184 minus the scanned epoch_seconds.
Staleness(k, n) ==
    LET c == Scanned(k, n).cluster_name
        j == CHOOSE x \in Did(k, c, "now") : TRUE
    IN  Done(k, c, "now")[j].now - Scanned(k, n).epoch_seconds

\* The scanned alert_active: TRUE, FALSE or absent.
Prior(k, n) == Attr([x \in {"it"} |-> Scanned(k, n)], "it", "error_state")

Threshold == int(MAX_TIME_SECONDS)

\* The single error_state write of the iteration on cluster c carries value v.
WroteOnce(k, c, v) ==
    /\ Cardinality(Did(k, c, "update")) = 1
    /\ \A j \in Did(k, c, "update") : Done(k, c, "update")[j].error_state = v

WriteOk(k, c) == \E j \in Did(k, c, "update") : Done(k, c, "update")[j].ok

\* C3: in one pass, a scanned cluster that is not excluded by the
\* maintenance window and whose staleness exceeds max_allowed_seconds gets
\* exactly one alert notification, no recovery notification, and one write of
\* alert_active = true (which stands in the table when the write succeeds),
\* whatever alert_active was before.
C3_StaleAlerts ==
    \A k \in CheckIds : \A n \in 1..Len(checker[k].clusters) :
        LET c == Scanned(k, n).cluster_name
        IN  (Finished(k, n) /\ Processed(k, n) /\ Staleness(k, n) > Threshold)
            => /\ Cardinality(Alerts(k, c)) = 1
               /\ Recoveries(k, c) = {}
               /\ WroteOnce(k, c, TRUE)
               /\ WriteOk(k, c) => Attr(table, c, "error_state") = {TRUE}

\* A finished pass that found one cluster stale with alert_active true and
\* the other stale with no alert_active yet.
C3_Witness ==
    \E k \in CheckIds :
        /\ checker[k].pc = "loop" /\ checker[k].i = 3
        /\ \A n \in 1..2 : Processed(k, n) /\ Staleness(k, n) > Threshold
        /\ Prior(k, 1) = {TRUE} /\ Prior(k, 2) = {}
        /\ \A c \in Clusters : Cardinality(Alerts(k, c)) = 1 /\ WriteOk(k, c)
        /\ \A c \in Clusters : table[c].error_state

\* C4: in one pass, a processed cluster whose staleness is at most
\* max_allowed_seconds (the threshold itself included) and whose alert_active
\* was false or absent gets no notification of either kind, one write of
\* alert_active = false, and is not alerting after the pass.
C4_HealthyQuiet ==
    \A k \in CheckIds : \A n \in 1..Len(checker[k].clusters) :
        LET c == Scanned(k, n).cluster_name
        IN  (Finished(k, n) /\ Processed(k, n) /\ Staleness(k, n) <= Threshold
                /\ Prior(k, n) \subseteq {FALSE})
            => /\ Did(k, c, "send") = {}
               /\ WroteOnce(k, c, FALSE)
               /\ Attr(table, c, "error_state") \subseteq {FALSE}
               /\ WriteOk(k, c) => Attr(table, c, "error_state") = {FALSE}

\* A finished pass that found a cluster with staleness equal to the threshold
\* and no alert_active yet, and another with alert_active false.
C4_Witness ==
    \E k \in CheckIds :
        /\ checker[k].pc = "loop" /\ checker[k].i = 3
        /\ \A n \in 1..2 : Processed(k, n) /\ Staleness(k, n) = Threshold
        /\ Prior(k, 1) = {} /\ Prior(k, 2) = {FALSE}
        /\ \A c \in Clusters : Did(k, c, "send") = {} /\ WriteOk(k, c)
        /\ \A c \in Clusters : ~table[c].error_state

\* C5: in one pass, a processed cluster whose alert_active was true and
\* whose staleness is at most max_allowed_seconds gets exactly one recovery
\* notification, no alert notification, and one write of alert_active = false.
C5_Recovery ==
    \A k \in CheckIds : \A n \in 1..Len(checker[k].clusters) :
        LET c == Scanned(k, n).cluster_name
        IN  (Finished(k, n) /\ Processed(k, n) /\ Staleness(k, n) <= Threshold
                /\ Prior(k, n) = {TRUE})
            => /\ Cardinality(Recoveries(k, c)) = 1
               /\ Alerts(k, c) = {}
               /\ WroteOnce(k, c, FALSE)
               /\ WriteOk(k, c) => Attr(table, c, "error_state") = {FALSE}

C5_Witness ==
    \E k \in CheckIds : \E n \in 1..Len(checker[k].clusters) :
        LET c == Scanned(k, n).cluster_name
        IN  /\ Finished(k, n) /\ Processed(k, n)
            /\ Staleness(k, n) = Threshold /\ Prior(k, n) = {TRUE}
            /\ Cardinality(Recoveries(k, c)) = 1
            /\ WriteOk(k, c) /\ ~table[c].error_state

\* Pass k sends a recovery notification for cluster c in this step.
SendsRecovery(k, c) == Recoveries(k, c)' \ Recoveries(k, c) # {}

\* Pass k decides in this step, for the cluster of its current iteration,
\* that it is healthy while the scanned alert_active is true.
FindsRecovered(k) ==
    /\ checker[k].pc = "cluster" /\ checker'[k].pc = "dynamodb_update"
    /\ checker[k].now - Scanned(k, checker[k].i).epoch_seconds <= Threshold
    /\ Prior(k, checker[k].i) = {TRUE}

\* C6 as claimed: every pass that finds a cluster with alert_active true
\* healthy again sends a recovery notification, and between two recovery
\* notifications for one cluster some pass found the cluster stale, also when
\* error_state writes and Slack posts fail.
C6_OncePerCrossing ==
    [][\A k \in CheckIds :
        /\ FindsRecovered(k) => SendsRecovery(k, Scanned(k, checker[k].i).cluster_name)
        /\ \A c \in Clusters : SendsRecovery(k, c) => finding[c] = "stale"]_vars

\* C6 as the code has it: every pass that finds a cluster with alert_active
\* true healthy again sends a recovery notification, and between two recovery
\* notifications for one cluster some pass found the cluster stale, or the
\* error_state = False write that followed the earlier of the two failed.
C6_OncePerWrittenCrossing ==
    [][\A k \in CheckIds :
        /\ FindsRecovered(k) => SendsRecovery(k, Scanned(k, checker[k].i).cluster_name)
        /\ \A c \in Clusters : SendsRecovery(k, c) => finding[c] \in {"stale", "recovery"}]_vars

\* A pass sent a recovery notification and its error_state = False write
\* failed: the table still says alerting, and the next pass repeats the
\* recovery notification.
C6_Witness ==
    \E k \in CheckIds : \E c \in Clusters :
        /\ checker[k].pc = "loop"
        /\ Cardinality(Recoveries(k, c)) = 1
        /\ Did(k, c, "update") # {} /\ ~WriteOk(k, c)
        /\ finding[c] = "recovery"
        /\ Attr(table, c, "error_state") = {TRUE}

\* ---------------------------------------------------- the maintenance window
Group == {SCALE_DOWN_CLUSTERS[j] : j \in 1..Len(SCALE_DOWN_CLUSTERS)}

\* The seconds before t at which the schedule expr fires, and the latest one.
Fires(expr, t) ==
    {s \in (t - 2 * CronPeriod)..(t - 1) : s % CronPeriod = expr.phase}

MostRecent(expr, t) == CHOOSE s \in Fires(expr, t) : \A r \in Fires(expr, t) : r <= s

\* At time t, cluster c is in the excluded (scaled-down) window.
InWindow(c, t) ==
    /\ c \in Group
    /\ cron.down.valid /\ cron.up.valid
    /\ MostRecent(cron.down, t) > MostRecent(cron.up, t)

\* Iteration n of pass k treated its cluster as the pass treats any cluster
\* it processes: one error_state write carrying (staleness > threshold), one
\* alert when stale, one recovery when healthy after alert_active true, and
\* nothing otherwise.
NormalOutcome(k, n) ==
    LET c == Scanned(k, n).cluster_name
        stale == Staleness(k, n) > Threshold
    IN  /\ Processed(k, n)
        /\ WroteOnce(k, c, stale)
        /\ Cardinality(Alerts(k, c)) = (IF stale THEN 1 ELSE 0)
        /\ Cardinality(Recoveries(k, c)) = (IF ~stale /\ Prior(k, n) = {TRUE} THEN 1 ELSE 0)
        /\ WriteOk(k, c) => Attr(table, c, "error_state") = {stale}

\* C7: a cluster of the maintenance group, with both cron expressions valid
\* and the most recent scale-down strictly later than the most recent
\* scale-up, is skipped by the pass: no notification, no error_state write,
\* its alert_active stays as scanned.  With the two occurrences equal or the
\* scale-up later, or outside the group, the cluster is processed normally.
C7_MaintenanceWindow ==
    \A k \in CheckIds : \A n \in 1..Len(checker[k].clusters) :
        LET c == Scanned(k, n).cluster_name
        IN  \A j \in Did(k, c, "cron") :
                IF InWindow(c, Done(k, c, "cron")[j].at)
                THEN /\ ~Done(k, c, "cron")[j].process
                     /\ Did(k, c, "send") = {}
                     /\ Did(k, c, "update") = {}
                     /\ checker[k].i > n
                     /\ Attr(table, c, "error_state") = Prior(k, n)
                ELSE /\ Done(k, c, "cron")[j].process
                     /\ Finished(k, n) => NormalOutcome(k, n)

\* A finished pass that skipped a stale cluster in its window, which keeps
\* alert_active false, and alerted on the other cluster.
C7_Witness ==
    \E k \in CheckIds :
        /\ checker[k].pc = "loop" /\ checker[k].i = 3
        /\ Scanned(k, 1).cluster_name \in Group
        /\ ~Processed(k, 1) /\ Staleness(k, 1) > Threshold
        /\ Prior(k, 1) = {FALSE} /\ Attr(table, Scanned(k, 1).cluster_name, "error_state") = {FALSE}
        /\ Processed(k, 2) /\ Cardinality(Alerts(k, Scanned(k, 2).cluster_name)) = 1

\* C8: with the scale-down or the scale-up expression malformed, a cluster
\* of the maintenance group is never skipped and is processed as any other
\* cluster, whatever the other expression is.
C8_MalformedCronFailsOpen ==
    (~cron.down.valid \/ ~cron.up.valid) =>
        \A k \in CheckIds : \A n \in 1..Len(checker[k].clusters) :
            LET c == Scanned(k, n).cluster_name
            IN  c \in Group =>
                    /\ \A j \in Did(k, c, "cron") : Done(k, c, "cron")[j].process
                    /\ Finished(k, n) => NormalOutcome(k, n)

\* Scale-down malformed, scale-up valid: the group's cluster is found stale
\* at a time the valid window would have excluded, and alerted on.
C8_Witness ==
    \E k \in CheckIds : \E n \in 1..Len(checker[k].clusters) :
        LET c == Scanned(k, n).cluster_name
        IN  /\ ~cron.down.valid /\ cron.up.valid
            /\ c \in Group /\ Finished(k, n) /\ Processed(k, n)
            /\ Staleness(k, n) > Threshold
            /\ Cardinality(Alerts(k, c)) = 1 /\ WriteOk(k, c)

\* ------------------------------------------------------------ field ownership
\* The cluster a webhook invocation names, read in whichever of the two
\* states of a step holds its event.
Named(w) ==
    IF api[w].pc = "idle" THEN api'[w].event.path.cluster_name
    ELSE api[w].event.path.cluster_name

\* C9: in every step of every interleaving, a webhook invocation changes at
\* most epoch_seconds of the cluster it names (no error_state of any cluster,
\* nothing of another cluster), and a check invocation changes no
\* epoch_seconds of any cluster.
C9_FieldOwnership ==
    [][/\ \A w \in ApiIds :
            api'[w] # api[w] =>
                \A c \in Clusters :
                    /\ Attr(table', c, "error_state") = Attr(table, c, "error_state")
                    /\ c # Named(w) =>
                          /\ Attr(table', c, "epoch_seconds") = Attr(table, c, "epoch_seconds")
                          /\ (c \in DOMAIN table') = (c \in DOMAIN table)
       /\ \A k \in CheckIds :
            checker'[k] # checker[k] =>
                \A c \in Clusters :
                    Attr(table', c, "epoch_seconds") = Attr(table, c, "epoch_seconds")]_vars

\* A heartbeat accepted between the scan and the error_state write of a
\* pass: the item holds the heartbeat's epoch_seconds and the pass's
\* error_state.
C9_Witness ==
    \E k \in CheckIds : \E n \in 1..Len(checker[k].clusters) : \E w \in ApiIds :
        LET c == Scanned(k, n).cluster_name
        IN  /\ Finished(k, n) /\ WriteOk(k, c)
            /\ api[w].pc = "returned" /\ api[w].response.statusCode = 200
            /\ api[w].cluster_name = c
            /\ api[w].epoch_seconds > Scanned(k, n).epoch_seconds
            /\ table[c].epoch_seconds = api[w].epoch_seconds
            /\ table[c].error_state

\* --------------------------------------------------------- swallowed failures
\* C10: when the error_state write of one cluster fails in a pass, that
\* cluster's alert_active keeps the value it had, the pass goes on to the
\* next cluster, and every later cluster of the pass is evaluated, notified
\* and written as the pass treats any cluster.
C10_WriteFailureSwallowed ==
    \A k \in CheckIds : \A n \in 1..Len(checker[k].clusters) :
        LET c == Scanned(k, n).cluster_name
        IN  (Did(k, c, "update") # {} /\ ~WriteOk(k, c))
            => /\ Attr(table, c, "error_state") = Prior(k, n)
               /\ Finished(k, n)
               /\ \A m \in (n + 1)..Len(checker[k].clusters) :
                     LET d == Scanned(k, m).cluster_name
                     IN  /\ checker[k].i > m => Did(k, d, "cron") # {}
                         /\ (Finished(k, m) /\ Processed(k, m)) => NormalOutcome(k, m)

\* A finished pass whose first write (alert_active = true, none before)
\* failed and whose second cluster was alerted on and written.
C10_Witness ==
    \E k \in CheckIds :
        /\ checker[k].pc = "loop" /\ checker[k].i = 3
        /\ Did(k, Scanned(k, 1).cluster_name, "update") # {}
        /\ ~WriteOk(k, Scanned(k, 1).cluster_name)
        /\ Staleness(k, 1) > Threshold /\ Prior(k, 1) = {}
        /\ Attr(table, Scanned(k, 1).cluster_name, "error_state") = {}
        /\ Processed(k, 2) /\ Staleness(k, 2) > Threshold
        /\ Cardinality(Alerts(k, Scanned(k, 2).cluster_name)) = 1
        /\ WriteOk(k, Scanned(k, 2).cluster_name)
        /\ Attr(table, Scanned(k, 2).cluster_name, "error_state") = {TRUE}

\* ------------------------------------------------ notification before write
\* Some notification pass k attempted for cluster c was not delivered.
SendFailed(k, c) == \E j \in Did(k, c, "send") : ~Done(k, c, "send")[j].delivered

\* What the iteration on the n-th scanned item has sent: one alert when
\* stale, one recovery when healthy after alert_active true, nothing else.
SentAsDecided(k, n) ==
    LET c == Scanned(k, n).cluster_name
        stale == Staleness(k, n) > Threshold
    IN  /\ Cardinality(Alerts(k, c)) = (IF stale THEN 1 ELSE 0)
        /\ Cardinality(Recoveries(k, c)) =
               (IF ~stale /\ Prior(k, n) = {TRUE} THEN 1 ELSE 0)

\* A notification that failed is followed by the error_state write of its
\* cluster; once that write succeeded the table holds the pass's decision,
\* and the clusters after it are processed as any cluster.
SendFailureSwallowed ==
    \A k \in CheckIds : \A n \in 1..Len(checker[k].clusters) :
        LET c == Scanned(k, n).cluster_name
        IN  SendFailed(k, c) =>
                /\ \/ checker[k].pc = "dynamodb_update" /\ checker[k].i = n
                   \/ Finished(k, n) /\ Cardinality(Did(k, c, "update")) = 1
                /\ (Finished(k, n) /\ WriteOk(k, c)) =>
                       Attr(table, c, "error_state") = {Staleness(k, n) > Threshold}
                /\ \A m \in (n + 1)..Len(checker[k].clusters) :
                       LET d == Scanned(k, m).cluster_name
                       IN  /\ checker[k].i > m => Did(k, d, "cron") # {}
                           /\ (Finished(k, m) /\ Processed(k, m)) => NormalOutcome(k, m)

\* In a step of pass k that sends for cluster c no error_state write of c has
\* been made; in the step that writes error_state of c the notification of
\* the branch has already been attempted and nothing is sent.
SendThenWrite(k, c) ==
    /\ (checker'[k].pc # "idle" /\ Done(k, c, "send")' # Done(k, c, "send"))
           => /\ Done(k, c, "update") = <<>>
              /\ Done(k, c, "update")' = <<>>
              /\ checker'[k].pc = "dynamodb_update"
    /\ (checker'[k].pc # "idle" /\ Done(k, c, "update")' # Done(k, c, "update"))
           => /\ checker[k].pc = "dynamodb_update"
              /\ Scanned(k, checker[k].i).cluster_name = c
              /\ SentAsDecided(k, checker[k].i)
              /\ Done(k, c, "send")' = Done(k, c, "send")

\* C11: in both branches of check the notification is attempted before the
\* error_state write; a notification that was not delivered is still
\* followed by that write, after which (the write succeeding) the cluster's
\* alert_active is (staleness > max_allowed_seconds) as the pass decided, and
\* the remaining clusters of the pass are processed.
C11_SendBeforeWrite ==
    /\ []SendFailureSwallowed
    /\ [][\A k \in CheckIds : \A c \in Clusters : SendThenWrite(k, c)]_vars

\* A finished pass whose alert for the first cluster was not delivered: the
\* first cluster is written alert_active = true, the second is processed.
C11_Witness ==
    \E k \in CheckIds :
        /\ checker[k].pc = "loop" /\ checker[k].i = 3
        /\ SendFailed(k, Scanned(k, 1).cluster_name)
        /\ Cardinality(Alerts(k, Scanned(k, 1).cluster_name)) = 1
        /\ WriteOk(k, Scanned(k, 1).cluster_name)
        /\ Prior(k, 1) \subseteq {FALSE}
        /\ Attr(table, Scanned(k, 1).cluster_name, "error_state") = {TRUE}
        /\ Processed(k, 2) /\ WriteOk(k, Scanned(k, 2).cluster_name)

\* ------------------------------------------------------------- scan failure
Scanning(k) == checker[k].pc \in {"idle", "dynamodb_scan"}

NothingLogged(k) == \A c \in Clusters : checker[k].log[c] = NothingDone

\* C12: a scan that fails on any page, the first or a later one, ends the
\* pass before the loop: the step changes nothing in the table, the pass has
\* sent nothing and written nothing, also for the clusters earlier pages
\* returned, and it does nothing afterwards.  The loop is entered only with
\* the last page read.
C12_ScanFailureAborts ==
    [][\A k \in CheckIds :
        /\ (Scanning(k) /\ checker'[k].pc = "exit")
               => /\ table' = table
                  /\ NothingLogged(k)'
                  /\ checker'[k].clusters = checker[k].clusters
        /\ (checker[k].pc = "exit" /\ checker'[k] # checker[k])
               => table' = table /\ checker'[k] = IdleCheck
        /\ (Scanning(k) /\ checker'[k] # checker[k])
               => table' = table /\ NothingLogged(k)'
        /\ (Scanning(k) /\ checker'[k].pc = "loop")
               => LET response == scan(table, checker[k].start_key)
                  IN  /\ response.LastEvaluatedKey = NoKey
                      /\ checker'[k].clusters = checker[k].clusters \o response.Items]_vars

\* The scan failed after a page that returned a stale cluster: the pass is
\* over, nothing was sent or written, the cluster has no alert_active.
C12_Witness ==
    \E k \in CheckIds :
        /\ checker[k].pc = "exit"
        /\ Len(checker[k].clusters) >= 1
        /\ checker[k].start_key # NoKey
        /\ NothingLogged(k)
        /\ clock > Scanned(k, 1).epoch_seconds + Threshold
        /\ Attr(table, Scanned(k, 1).cluster_name, "error_state") = {}

\* ----------------------------------------------------- recorder write failure
\* C13: when update_item fails in a webhook call with the right token, the
\* call raises: it returns no response, it has made one write attempt and
\* makes no other, and the table is as it was.  A call returns 200 only from
\* the step that wrote its epoch_seconds to the table.
C13_WriteFailureRaises ==
    [][\A w \in ApiIds :
        /\ (api[w].pc = "dynamodb_write" /\ api'[w].pc = "raised")
               => /\ table' = table
                  /\ api'[w].writes = 1
                  /\ api'[w].response = NoResponse
                  /\ ~BadToken(api'[w].event)
        /\ (api[w].pc = "raised" /\ api'[w] # api[w])
               => table' = table /\ api'[w] = IdleApi
        /\ (api[w].pc = "dynamodb_write" /\ api'[w] # api[w])
               => api'[w].pc \in {"returned", "raised"}
        /\ (api[w].pc # "returned" /\ api'[w].pc = "returned"
                /\ api'[w].response.statusCode = 200)
               => /\ api[w].pc = "dynamodb_write"
                  /\ api'[w].writes = 1
                  /\ OneWrite(table, table', api[w].cluster_name, "epoch_seconds",
                              api[w].epoch_seconds)]_vars

\* The first heartbeat of a cluster failed at the table: the call raised
\* after one attempt and the cluster has no record.
C13_Witness ==
    \E w \in ApiIds :
        /\ api[w].pc = "raised"
        /\ ~BadToken(api[w].event)
        /\ api[w].writes = 1
        /\ api[w].response = NoResponse
        /\ api[w].event.path.cluster_name \notin DOMAIN table

\* ------------------------------------------------------- last_seen over time
\* The invocation that writes epoch_seconds of cluster c in this step.
Writes(w, c) ==
    /\ api[w].pc = "dynamodb_write" /\ api'[w].pc = "returned"
    /\ api[w].cluster_name = c

LastSeenKept(c) ==
    c \in DOMAIN table => /\ c \in DOMAIN table'
                          /\ table'[c].epoch_seconds >= table[c].epoch_seconds

AllHaveLastSeen ==
    /\ \A c \in DOMAIN table : "epoch_seconds" \in DOMAIN table[c]
    /\ \A k \in CheckIds : \A n \in 1..Len(checker[k].clusters) :
           "epoch_seconds" \in DOMAIN Scanned(k, n)

\* C15: the table starts without keys; a key is added exactly by the
\* successful write of a webhook call with the right token, for the cluster
\* the call names; no step removes a key; no step of check adds one; hence
\* the keys are the names of the accepted and written heartbeats, and every
\* item check scans has epoch_seconds.
C15_KeysAreAcceptedHeartbeats ==
    /\ DOMAIN table = {}
    /\ []AllHaveLastSeen
    /\ [][/\ DOMAIN table \subseteq DOMAIN table'
          /\ \A c \in Clusters :
                /\ (c \in DOMAIN table' /\ c \notin DOMAIN table)
                       => \E w \in ApiIds : Writes(w, c) /\ ~BadToken(api[w].event)
                /\ \A w \in ApiIds : Writes(w, c) => c \in DOMAIN table'
          /\ \A k \in CheckIds :
                checker'[k] # checker[k] => DOMAIN table' = DOMAIN table]_vars

\* Only "b" has a record, created by its heartbeat and since written by a
\* pass; the one heartbeat of "a" failed at the table and left no record.
C15_Witness ==
    /\ DOMAIN table = {"b"}
    /\ "error_state" \in DOMAIN table["b"]
    /\ \E w \in ApiIds :
           /\ api[w].pc = "raised"
           /\ api[w].event.path.cluster_name = "a"
    /\ \E k \in CheckIds : checker[k].pc = "loop" /\ Len(checker[k].clusters) = 1

\* ------------------------------------------------------ order of the clusters
\* Pass k has left its loop.
Over(k) ==
    /\ Len(checker[k].clusters) > 0
    /\ \/ checker[k].pc = "exit"
       \/ checker[k].pc = "loop" /\ checker[k].i > Len(checker[k].clusters)

\* Passes k and l scanned the same items, in different orders.
Reordered(k, l) ==
    /\ Range(checker[k].clusters) = Range(checker[l].clusters)
    /\ Len(checker[k].clusters) = Len(checker[l].clusters)
    /\ checker[k].clusters # checker[l].clusters

\* The clock values pass k read for cluster c: line 184 and line 71.
NowOf(k, c) == [j \in Did(k, c, "now") |-> Done(k, c, "now")[j].now]

AtOf(k, c) == [j \in Did(k, c, "cron") |-> Done(k, c, "cron")[j].at]

\* The notifications pass k attempted for cluster c, and the error_state
\* values it wrote or tried to write.
Notifications(k, c) ==
    [j \in Did(k, c, "send") |->
        [error |-> Done(k, c, "send")[j].error,
         time_since_check_in |-> Done(k, c, "send")[j].time_since_check_in]]

Written(k, c) == [j \in Did(k, c, "update") |-> Done(k, c, "update")[j].error_state]

SameOutcome(k, l) ==
    \A c \in Clusters : /\ Notifications(k, c) = Notifications(l, c)
                        /\ Written(k, c) = Written(l, c)

\* C16 as claimed: two passes over the same scanned items in different
\* orders, the clock read at the n-th iteration being the same in both,
\* attempt the same notifications and write the same error_state for every
\* cluster.
C16_OrderInsensitive ==
    \A k, l \in CheckIds :
        (/\ Over(k) /\ Over(l) /\ Reordered(k, l)
         /\ \A n \in 1..Len(checker[k].clusters) :
               /\ NowOf(k, Scanned(k, n).cluster_name) = NowOf(l, Scanned(l, n).cluster_name)
               /\ AtOf(k, Scanned(k, n).cluster_name) = AtOf(l, Scanned(l, n).cluster_name))
        => SameOutcome(k, l)

\* C16 as the code has it: two passes over the same scanned items in
\* different orders attempt the same notifications and write the same
\* error_state for every cluster when each cluster is evaluated at the same
\* clock readings in both, whatever failed on the other clusters.
C16_OrderInsensitiveAtEqualTimes ==
    \A k, l \in CheckIds :
        (/\ Over(k) /\ Over(l) /\ Reordered(k, l)
         /\ \A c \in Clusters :
               (Did(k, c, "now") # {} /\ Did(l, c, "now") # {}) =>
                   NowOf(k, c) = NowOf(l, c) /\ AtOf(k, c) = AtOf(l, c))
        => /\ SameOutcome(k, l)
           /\ \A n \in 1..Len(checker[k].clusters) :
                  Did(k, Scanned(k, n).cluster_name, "cron") # {}

\* Two passes over the same two stale items in opposite orders at the same
\* clock reading: both alert on both clusters, though the first write of one
\* pass failed and an alert of the other was not delivered.
C16_Witness ==
    \E k, l \in CheckIds :
        /\ Over(k) /\ Over(l) /\ Reordered(k, l)
        /\ \A c \in Clusters : NowOf(k, c) = NowOf(l, c) /\ AtOf(k, c) = AtOf(l, c)
        /\ \A c \in Clusters : Cardinality(Alerts(k, c)) = 1 /\ Cardinality(Alerts(l, c)) = 1
        /\ ~WriteOk(k, Scanned(k, 1).cluster_name)
        /\ SendFailed(l, Scanned(l, 1).cluster_name)

\* ------------------------------------------------------- overlapping passes
\* The position of cluster c in the scanned list of pass k, the decision
\* (staleness > threshold) pass k took for c, and the clock value it used.
IndexOf(k, c) == CHOOSE n \in 1..Len(checker[k].clusters) : Scanned(k, n).cluster_name = c

Decision(k, c) == Staleness(k, IndexOf(k, c)) > Threshold

DecidedAt(k, c) == Done(k, c, "now")[1].now

\* Passes k and l are both over and both processed c, their writes succeeding.
BothWrote(k, l, c) ==
    /\ k # l /\ Over(k) /\ Over(l)
    /\ Processed(k, IndexOf(k, c)) /\ Processed(l, IndexOf(l, c))
    /\ WriteOk(k, c) /\ WriteOk(l, c)

\* C18 as claimed: after two overlapping passes, the error_state of a
\* cluster both wrote is the decision of the pass that decided later.
C18_LaterDecisionStands ==
    \A k, l \in CheckIds : \A c \in Clusters :
        (BothWrote(k, l, c) /\ DecidedAt(k, c) >= DecidedAt(l, c))
            => Attr(table, c, "error_state") = {Decision(k, c)}

\* C18 as the code has it: each of two overlapping passes notifies and
\* writes for a cluster what it decided from its own scan and clock reading;
\* after both, the error_state of the cluster is the decision of one of the
\* passes whose write succeeded (the one that wrote last), or the scanned
\* value when no write succeeded.
C18_SomeDecisionStands ==
    \A k, l \in CheckIds :
        (k # l /\ Over(k) /\ Over(l)) =>
            \A c \in Clusters :
                LET n == IndexOf(k, c)
                    decided == {Decision(p, c) : p \in {q \in {k, l} : WriteOk(q, c)}}
                IN  /\ Processed(k, n) => /\ SentAsDecided(k, n)
                                          /\ WroteOnce(k, c, Decision(k, c))
                    /\ decided # {} => \E v \in decided : Attr(table, c, "error_state") = {v}
                    /\ decided = {} => Attr(table, c, "error_state") = Prior(k, n)

\* Two overlapping passes: one decided at 10 that the cluster is stale and
\* wrote true, the other had decided at 9 that it is healthy and wrote false
\* afterwards; the table says not alerting.
C18_Witness ==
    \E k, l \in CheckIds : \E c \in Clusters :
        /\ BothWrote(k, l, c)
        /\ DecidedAt(k, c) > DecidedAt(l, c)
        /\ Decision(k, c) /\ ~Decision(l, c)
        /\ Cardinality(Alerts(k, c)) = 1
        /\ Attr(table, c, "error_state") = {FALSE}

\* ------------------------------------------------------- alerting is live
\* Cluster c has a record whose epoch_seconds is more than the threshold
\* behind the clock, and c is outside the maintenance window.
StaleOutside(c) ==
    /\ c \in DOMAIN table
    /\ clock - table[c].epoch_seconds > Threshold
    /\ ~InWindow(c, clock)

\* A pass has just attempted an alert notification for cluster c.
AlertAttempted(c) ==
    \E k \in CheckIds :
        /\ checker[k].pc = "dynamodb_update"
        /\ Scanned(k, checker[k].i).cluster_name = c
        /\ Cardinality(Alerts(k, c)) = 1

\* Every pass that finds a processed cluster stale has attempted one alert
\* for it, whatever error_state it scanned.
NoSuppression ==
    \A k \in CheckIds : \A n \in 1..Len(checker[k].clusters) :
        LET c == Scanned(k, n).cluster_name
        IN  (Processed(k, n) /\ Staleness(k, n) > Threshold
                /\ (Finished(k, n) \/ (checker[k].pc = "dynamodb_update" /\ checker[k].i = n)))
            => Cardinality(Alerts(k, c)) = 1 /\ Recoveries(k, c) = {}

AlertStep(k) ==
    /\ checker[k].pc = "cluster" /\ checker'[k].pc = "dynamodb_update"
    /\ checker'[k].error_state

WriteTrueStep(k) ==
    /\ checker[k].pc = "dynamodb_update" /\ checker'[k].pc = "loop"
    /\ checker[k].error_state
    /\ LET c == Scanned(k, checker[k].i).cluster_name
       IN  \E j \in DOMAIN checker'[k].log[c].update : checker'[k].log[c].update[j].ok

Exclusion(k) == checker[k].pc = "cluster" /\ checker'[k].pc = "loop"

Processing(k) == checker[k].pc = "cluster" /\ checker'[k].pc = "dynamodb_update"

\* The step appended one notification for cluster c to the log of pass k: an
\* alert that reports the given staleness.
AlertAppended(k, c, staleness) ==
    /\ Len(checker'[k].log[c].send) = Len(checker[k].log[c].send) + 1
    /\ LET sent == checker'[k].log[c].send[Len(checker'[k].log[c].send)]
       IN  sent.error /\ sent.time_since_check_in = staleness

\* C20: leaving the maintenance window does not reset staleness.  A pass that
\* excludes a cluster does so inside the window and leaves the table as it
\* is, an alert_active = true included.  The first pass that processes a
\* cluster of the maintenance group after a pass excluded it, no heartbeat
\* accepted in between, does so outside the window and measures staleness
\* from the last_seen the registry has held since before the exclusion: when
\* that is more than max_allowed_seconds before the clock it read, it sends
\* an alert and sets alert_active = true, otherwise it sends no alert.
C20_WindowKeepsStaleness ==
    [][\A k \in SerialCheck :
          LET cluster == checker[k].clusters[checker[k].i]
              c == cluster.cluster_name
              staleness == checker[k].now - cluster.epoch_seconds
          IN  /\ Exclusion(k) =>
                    /\ InWindow(c, clock)
                    /\ table' = table
                    /\ checker'[k].i = checker[k].i + 1
              /\ (Processing(k) /\ finding[c] = "skipped") =>
                    /\ c \in Group /\ ~InWindow(c, clock)
                    /\ Attr(table, c, "epoch_seconds") = {cluster.epoch_seconds}
                    /\ checker'[k].error_state = (staleness > Threshold)
                    /\ IF staleness > Threshold
                       THEN AlertAppended(k, c, staleness)
                       ELSE \A j \in DOMAIN checker'[k].log[c].send :
                                ~checker'[k].log[c].send[j].error
              /\ ( /\ checker[k].pc = "dynamodb_update"
                   /\ finding[c] = "left"
                   /\ checker[k].error_state
                   /\ checker'[k].pc = "loop"
                   /\ checker'[k].log[c].update[Len(checker'[k].log[c].update)].ok ) =>
                    Attr(table', c, "error_state") = {TRUE}
    ]_vars

\* A pass excluded the cluster inside the window; the next pass, after the
\* window, found the pre-window last_seen still in the registry, sent an
\* alert and set alert_active = true.
C20_Witness ==
    \E k \in SerialCheck : \E c \in Group :
        /\ finding[c] = "left"
        /\ checker[k].pc = "loop"
        /\ Alerts(k, c) # {}
        /\ Attr(table, c, "epoch_seconds") = {StartTime - 1}
        /\ Attr(table, c, "error_state") = {TRUE}

\* C1: a webhook call whose verify_token is absent or differs from the secret
\* returns status 400, and no step of that call changes the table: every
\* item, with its epoch_seconds and error_state, and the set of keys stay.
C1_BadTokenRejected ==
    [][\A w \in ApiIds :
        (/\ api'[w] # api[w]
         /\ \/ api[w].pc # "idle" /\ BadToken(api[w].event)
            \/ api'[w].pc # "idle" /\ BadToken(api'[w].event))
        => /\ table' = table
           /\ api'[w].pc \in {"returned", "idle"}
           /\ api'[w].pc = "returned" =>
                 /\ api'[w].response.statusCode = 400
                 /\ api'[w].writes = 0]_vars

C1_Witness ==
    \E w \in ApiIds :
        /\ api[w].pc = "returned"
        /\ "verify_token" \notin DOMAIN api[w].event.query
        /\ api[w].response.statusCode = 400
        /\ api[w].event.path.cluster_name \notin DOMAIN table
        /\ table # EmptyTable

\* C2: a webhook call with the right token whose table write succeeds makes
\* exactly one write: it sets epoch_seconds of the named cluster (creating the
\* item when absent) to the clock value the call read, changes nothing else,
\* and returns 200 with the decimal string of that value as body.
C2_HeartbeatRecorded ==
    [][\A w \in ApiIds :
        /\ (api[w].pc = "idle" /\ api'[w].pc = "dynamodb_write")
            => /\ ~BadToken(api'[w].event)
               /\ api'[w].epoch_seconds = clock
               /\ api'[w].cluster_name = api'[w].event.path.cluster_name
               /\ api'[w].writes = 0
               /\ table' = table
        /\ (api[w].pc = "dynamodb_write" /\ api'[w].pc = "returned")
            => /\ OneWrite(table, table', api[w].cluster_name, "epoch_seconds",
                           api[w].epoch_seconds)
               /\ api'[w].writes = 1
               /\ api'[w].response.statusCode = 200
               /\ IsDecimal(api'[w].response.body)
               /\ int(api'[w].response.body) = api[w].epoch_seconds
        /\ (api[w].pc # "returned" /\ api'[w].pc = "returned"
                /\ api'[w].response.statusCode = 200)
            => api[w].pc = "dynamodb_write"]_vars

C2_Witness ==
    \E w \in ApiIds :
        /\ api[w].pc = "returned"
        /\ api[w].response = [statusCode |-> 200, body |-> <<"1", "0">>]
        /\ api[w].cluster_name \in DOMAIN table
        /\ table[api[w].cluster_name].epoch_seconds = 10
        /\ api[w].epoch_seconds = 10
        /\ clock = 10
        /\ api[w].writes = 1

====
